---------------------------- MODULE Spec2Model ----------------------------
(***************************************************************************)
(* A model of md2h.py: the line scanner convert_md_to_html, the inline     *)
(* pass apply_inline_formatting, and the file loop of main.                *)
(*                                                                         *)
(* Text is a sequence of one-character strings; a fragment of the output   *)
(* buffer is text as well.  Python's False / True / 'ol' values of in_list *)
(* are the strings "False", "True" and "ol".                               *)
(***************************************************************************)
EXTENDS Integers, Sequences, FiniteSets, TLC

VARIABLES
    lines,          \* convert_md_to_html: md_content.split('\n')
    i,              \* convert_md_to_html: number of lines consumed (Python's i)
    in_code_block,  \* convert_md_to_html: inside a fenced code block
    in_list,        \* convert_md_to_html: "False", "True" (a <ul>) or "ol"
    html_lines,     \* convert_md_to_html: the output buffer, a sequence of fragments
    pc,             \* convert_md_to_html: "idle", "walk" (the while loop) or "done"
    result,         \* convert_md_to_html: the returned text, '\n'.join(html_lines)
    text,           \* apply_inline_formatting: the text being rewritten
    text0,          \* apply_inline_formatting: the argument it was called with
    pass,           \* apply_inline_formatting: number of re.sub passes done (0..7)
    files,          \* main: files_to_process, each file by what the system does with it
    f,              \* main: number of files the for loop has taken
    returned,       \* main: what process_markdown_file returned, per file taken
    success_count,  \* main: success_count
    mpc,            \* main: "idle", "scan", "loop", "report", "exit"
    exit_code       \* main: the process's exit code once mpc = "exit", else -1

scanVars   == <<lines, i, in_code_block, in_list, html_lines, pc, result>>
inlineVars == <<text, text0, pass>>
mainVars   == <<files, f, returned, success_count, mpc, exit_code>>
vars       == <<lines, i, in_code_block, in_list, html_lines, pc, result,
                text, text0, pass,
                files, f, returned, success_count, mpc, exit_code>>

---------------------------------------------------------------------------
(* Python's str operations, on sequences of characters.                    *)

\* The backtick character: a string literal of the module cannot hold one
Backtick == "BACKTICK"

\* str.strip() strips these (the ASCII whitespace a line can hold: the
\* document is split on "\n", so a line holds none)
Whitespace == {" ", "\t"}

\* str.isdigit(), on ASCII characters
IsDigit(c) == c \in {"0", "1", "2", "3", "4", "5", "6", "7", "8", "9"}

\* s[a-1 : b] of Python, 1-based and inclusive here; empty when a > b
Slice(s, a, b) == IF a > b THEN <<>> ELSE SubSeq(s, a, b)

\* s[:n]
Take(s, n) == Slice(s, 1, IF n < Len(s) THEN n ELSE Len(s))

\* s[n:]
Drop(s, n) == Slice(s, n + 1, Len(s))

RECURSIVE LStrip(_)
LStrip(s) ==
    IF s # <<>> /\ Head(s) \in Whitespace THEN LStrip(Tail(s)) ELSE s

RECURSIVE RStrip(_)
RStrip(s) ==
    IF s # <<>> /\ s[Len(s)] \in Whitespace
    THEN RStrip(SubSeq(s, 1, Len(s) - 1))
    ELSE s

\* s.strip()
Strip(s) == RStrip(LStrip(s))

\* whether d occurs in s at position p (1-based)
At(s, p, d) ==
    /\ p >= 1
    /\ p + Len(d) - 1 <= Len(s)
    /\ SubSeq(s, p, p + Len(d) - 1) = d

\* s.startswith(d)
StartsWith(s, d) == At(s, 1, d)

\* s.find(d, from): the least position >= from where d occurs in s, 0 when none
Find(s, d, from) ==
    LET hits == {p \in from..Len(s) : At(s, p, d)}
    IN  IF hits = {} THEN 0 ELSE CHOOSE p \in hits : \A q \in hits : p <= q

\* d in s
Contains(s, d) == Find(s, d, 1) # 0

\* s.replace(c, d), c one character
RECURSIVE Replace(_, _, _)
Replace(s, c, d) ==
    IF s = <<>> THEN <<>>
    ELSE (IF Head(s) = c THEN d ELSE <<Head(s)>>) \o Replace(Tail(s), c, d)

\* '\n'.join(fragments)
RECURSIVE Join(_)
Join(frags) ==
    IF frags = <<>> THEN <<>>
    ELSE IF Len(frags) = 1 THEN frags[1]
    ELSE frags[1] \o <<"\n">> \o Join(Tail(frags))

---------------------------------------------------------------------------
(* apply_inline_formatting: seven re.sub passes.                           *)
(* re.sub replaces the leftmost non-overlapping matches, scanning from the *)
(* left; a position where the pattern does not match keeps its character.  *)
(* A match is [end |-> last position matched, by |-> the replacement],     *)
(* end = 0 when the pattern does not match at that position.               *)

NoMatch == [end |-> 0, by |-> <<>>]

\* \[([^\]]{min,})\]\(([^\)]+)\) at p: the text runs to the first "]", which
\* "(" follows at once; the url runs to the first ")" and is not empty
BracketSpan(t, p, min) ==
    IF ~At(t, p, <<"[">>) THEN [end |-> 0, label |-> <<>>, url |-> <<>>]
    ELSE LET q == Find(t, <<"]">>, p + 1)
             r == IF q = 0 THEN 0 ELSE Find(t, <<")">>, q + 2)
         IN  IF /\ q # 0
                /\ q - (p + 1) >= min
                /\ At(t, q + 1, <<"(">>)
                /\ r >= q + 3
             THEN [end |-> r, label |-> Slice(t, p + 1, q - 1),
                   url |-> Slice(t, q + 2, r - 1)]
             ELSE [end |-> 0, label |-> <<>>, url |-> <<>>]

\* r'!\[([^\]]*)\]\(([^\)]+)\)' -> r'<img src="\2" alt="\1">'
ImageMatch(t, p) ==
    LET m == BracketSpan(t, p + 1, 0)
    IN  IF At(t, p, <<"!">>) /\ m.end # 0
        THEN [end |-> m.end,
              by  |-> <<"<", "i", "m", "g", " ", "s", "r", "c", "=", "\"">> \o m.url
                      \o <<"\"", " ", "a", "l", "t", "=", "\"">> \o m.label
                      \o <<"\"", ">">>]
        ELSE NoMatch

\* r'\[([^\]]+)\]\(([^\)]+)\)' -> r'<a href="\2">\1</a>'
LinkMatch(t, p) ==
    LET m == BracketSpan(t, p, 1)
    IN  IF m.end # 0
        THEN [end |-> m.end,
              by  |-> <<"<", "a", " ", "h", "r", "e", "f", "=", "\"">> \o m.url
                      \o <<"\"", ">">> \o m.label \o <<"<", "/", "a", ">">>]
        ELSE NoMatch

\* d(.+?)d -> open \1 close: d at p, then the nearest d that leaves at least
\* one character between the two (non-greedy)
DelimMatch(t, p, d, open, close) ==
    LET q == IF At(t, p, d) THEN Find(t, d, p + Len(d) + 1) ELSE 0
    IN  IF q # 0
        THEN [end |-> q + Len(d) - 1,
              by  |-> open \o Slice(t, p + Len(d), q - 1) \o close]
        ELSE NoMatch

STRONG_OPEN  == <<"<", "s", "t", "r", "o", "n", "g", ">">>
STRONG_CLOSE == <<"<", "/", "s", "t", "r", "o", "n", "g", ">">>
EM_OPEN      == <<"<", "e", "m", ">">>
EM_CLOSE     == <<"<", "/", "e", "m", ">">>
CODE_OPEN    == <<"<", "c", "o", "d", "e", ">">>
CODE_CLOSE   == <<"<", "/", "c", "o", "d", "e", ">">>

\* r'\*\*(.+?)\*\*' -> r'<strong>\1</strong>'
BoldStarMatch(t, p) == DelimMatch(t, p, <<"*", "*">>, STRONG_OPEN, STRONG_CLOSE)

\* r'__(.+?)__' -> r'<strong>\1</strong>'
BoldUnderMatch(t, p) == DelimMatch(t, p, <<"_", "_">>, STRONG_OPEN, STRONG_CLOSE)

\* r'\*(.+?)\*' -> r'<em>\1</em>'
ItalicStarMatch(t, p) == DelimMatch(t, p, <<"*">>, EM_OPEN, EM_CLOSE)

\* r'_(.+?)_' -> r'<em>\1</em>'
ItalicUnderMatch(t, p) == DelimMatch(t, p, <<"_">>, EM_OPEN, EM_CLOSE)

\* r'`([^`]+)`' -> r'<code>\1</code>': the content runs to the first
\* backtick after p and is not empty
CodeMatch(t, p) ==
    LET q == IF At(t, p, <<Backtick>>) THEN Find(t, <<Backtick>>, p + 1) ELSE 0
    IN  IF q >= p + 2
        THEN [end |-> q, by |-> CODE_OPEN \o Slice(t, p + 1, q - 1) \o CODE_CLOSE]
        ELSE NoMatch

\* the pattern of pass n (1..7), in the order of the source
PassMatch(n, t, p) ==
    CASE n = 1 -> ImageMatch(t, p)
      [] n = 2 -> LinkMatch(t, p)
      [] n = 3 -> BoldStarMatch(t, p)
      [] n = 4 -> BoldUnderMatch(t, p)
      [] n = 5 -> ItalicStarMatch(t, p)
      [] n = 6 -> ItalicUnderMatch(t, p)
      [] n = 7 -> CodeMatch(t, p)

\* re.sub(pattern n, replacement n, t), from position p on
RECURSIVE SubFrom(_, _, _)
SubFrom(n, t, p) ==
    IF p > Len(t) THEN <<>>
    ELSE LET m == PassMatch(n, t, p)
         IN  IF m.end # 0 THEN m.by \o SubFrom(n, t, m.end + 1)
             ELSE <<t[p]>> \o SubFrom(n, t, p + 1)

ReSub(n, t) == SubFrom(n, t, 1)

NumPasses == 7

\* apply_inline_formatting(t)
apply_inline_formatting(t) ==
    ReSub(7, ReSub(6, ReSub(5, ReSub(4, ReSub(3, ReSub(2, ReSub(1, t)))))))

---------------------------------------------------------------------------
(* convert_md_to_html: the tests and fragments of one line.                *)

Fence == <<Backtick, Backtick, Backtick>>

\* line.strip().startswith(three backticks)
IsFenceLine(line) == StartsWith(Strip(line), Fence)

\* f'<pre><code class="{lang}">' with lang = line.strip()[3:].strip()
PreOpen(line) ==
    <<"<", "p", "r", "e", ">", "<", "c", "o", "d", "e", " ",
      "c", "l", "a", "s", "s", "=", "\"">>
    \o Strip(Drop(Strip(line), 3)) \o <<"\"", ">">>

PRE_CLOSE == <<"<", "/", "c", "o", "d", "e", ">", "<", "/", "p", "r", "e", ">">>

\* EscapeCode without the second replace
EscapeCodeLtOnly(line) == Replace(line, "<", <<"&", "l", "t", ";">>)

\* line.replace('<', '&lt;').replace('>', '&gt;')
EscapeCode(line) ==
    Replace(Replace(line, "<", <<"&", "l", "t", ";">>), ">", <<"&", "g", "t", ";">>)

\* the while loop of the header test: the number of leading '#'
RECURSIVE HashRun(_)
HashRun(line) ==
    IF line # <<>> /\ Head(line) = "#" THEN 1 + HashRun(Tail(line)) ELSE 0

MaxHeadingLevel == 6

\* IsHeadingLine without the test level <= 6
IsHeadingLineAnyLevel(line) ==
    LET level == HashRun(line)
    IN  /\ StartsWith(line, <<"#">>)
        /\ level < Len(line)
        /\ line[level + 1] = " "

\* line.startswith('#') and level <= 6 and level < len(line) and line[level] == ' '
IsHeadingLine(line) ==
    LET level == HashRun(line)
    IN  /\ StartsWith(line, <<"#">>)
        /\ level <= MaxHeadingLevel
        /\ level < Len(line)
        /\ line[level + 1] = " "

\* str(level)
RECURSIVE IntToStr(_)
IntToStr(n) ==
    LET digit(d) == <<"0", "1", "2", "3", "4", "5", "6", "7", "8", "9">>[d + 1]
    IN  IF n < 10 THEN <<digit(n)>> ELSE IntToStr(n \div 10) \o <<digit(n % 10)>>

\* f'<h{level}>{content}</h{level}>', content the formatted line[level+1:].strip()
HeadingFragment(line) ==
    LET level == HashRun(line)
    IN  <<"<", "h">> \o IntToStr(level) \o <<">">>
        \o apply_inline_formatting(Strip(Drop(line, level + 1)))
        \o <<"<", "/", "h">> \o IntToStr(level) \o <<">">>

\* line.strip().startswith(('- ', '* ', '+ '))
HasBulletPrefix(line) ==
    \/ StartsWith(Strip(line), <<"-", " ">>)
    \/ StartsWith(Strip(line), <<"*", " ">>)
    \/ StartsWith(Strip(line), <<"+", " ">>)

\* line.strip() and line.strip()[0].isdigit()
HasDigitPrefix(line) == Strip(line) # <<>> /\ IsDigit(Strip(line)[1])

OrderedMarkerWindow == 4

\* IsOrderedLine looking for '. ' in the whole stripped line
IsOrderedLineAnywhere(line) ==
    HasDigitPrefix(line) /\ Contains(Strip(line), <<".", " ">>)

\* ... and '. ' in line.strip()[:4]
IsOrderedLine(line) ==
    HasDigitPrefix(line) /\ Contains(Take(Strip(line), OrderedMarkerWindow), <<".", " ">>)

\* f'  <li>{content}</li>'
ListItem(content) ==
    <<" ", " ", "<", "l", "i", ">">> \o content \o <<"<", "/", "l", "i", ">">>

\* the item of an unordered line: content = line.strip()[2:].strip(), formatted
UnorderedItem(line) == ListItem(apply_inline_formatting(Strip(Drop(Strip(line), 2))))

\* the item of an ordered line: content = line.strip().split('. ', 1)[1], formatted
OrderedItem(line) ==
    LET t == Strip(line)
    IN  ListItem(apply_inline_formatting(Drop(t, Find(t, <<".", " ">>, 1) + 1)))

UL_OPEN  == <<"<", "u", "l", ">">>
UL_CLOSE == <<"<", "/", "u", "l", ">">>
OL_OPEN  == <<"<", "o", "l", ">">>
OL_CLOSE == <<"<", "/", "o", "l", ">">>
BR       == <<"<", "b", "r", ">">>

\* CloseTag without the test of the list's kind
CloseTagAlwaysUl(il) == UL_CLOSE

\* '</ol>' if in_list == 'ol' else '</ul>'
CloseTag(il) == IF il = "ol" THEN OL_CLOSE ELSE UL_CLOSE

\* the test of "Close list if we're in one and hit a non-list line"
ClosesList(line, il) ==
    il # "False" /\ ~HasBulletPrefix(line) /\ ~HasDigitPrefix(line)

\* f'<p>{content}</p>', content the formatted (untrimmed) line
Paragraph(line) ==
    <<"<", "p", ">">> \o apply_inline_formatting(line) \o <<"<", "/", "p", ">">>

---------------------------------------------------------------------------
(* convert_md_to_html: one action per way through one turn of the loop.    *)

\* lines[i] of the source (i counts from 0 there)
Line == lines[i + 1]

InLoop == pc = "walk" /\ i < Len(lines)

\* a line whose stripped text starts with three backticks
FenceStep ==
    /\ InLoop
    /\ IsFenceLine(Line)
    /\ in_code_block' = ~in_code_block
    /\ html_lines' = Append(html_lines,
                            IF ~in_code_block THEN PreOpen(Line) ELSE PRE_CLOSE)
    /\ i' = i + 1
    /\ UNCHANGED <<lines, in_list, pc, result>>
    /\ UNCHANGED <<inlineVars, mainVars>>

\* any other line inside a code block
CodeStep ==
    /\ InLoop
    /\ ~IsFenceLine(Line)
    /\ in_code_block
    /\ html_lines' = Append(html_lines, EscapeCode(Line))
    /\ i' = i + 1
    /\ UNCHANGED <<lines, in_code_block, in_list, pc, result>>
    /\ UNCHANGED <<inlineVars, mainVars>>

NotCode == InLoop /\ ~IsFenceLine(Line) /\ ~in_code_block

\* HeadingStep closing an open list before the heading, as a paragraph does
HeadingStepClosingList ==
    /\ NotCode
    /\ IsHeadingLine(Line)
    /\ html_lines' = Append(IF in_list # "False"
                            THEN Append(html_lines, CloseTag(in_list))
                            ELSE html_lines,
                            HeadingFragment(Line))
    /\ in_list' = "False"
    /\ i' = i + 1
    /\ UNCHANGED <<lines, in_code_block, pc, result>>
    /\ UNCHANGED <<inlineVars, mainVars>>

HeadingStep ==
    /\ NotCode
    /\ IsHeadingLine(Line)
    /\ html_lines' = Append(html_lines, HeadingFragment(Line))
    /\ i' = i + 1
    /\ UNCHANGED <<lines, in_code_block, in_list, pc, result>>
    /\ UNCHANGED <<inlineVars, mainVars>>

UnorderedStep ==
    /\ NotCode
    /\ ~IsHeadingLine(Line)
    /\ HasBulletPrefix(Line)
    /\ html_lines' = (IF in_list = "False" THEN Append(html_lines, UL_OPEN)
                      ELSE html_lines) \o <<UnorderedItem(Line)>>
    /\ in_list' = (IF in_list = "False" THEN "True" ELSE in_list)
    /\ i' = i + 1
    /\ UNCHANGED <<lines, in_code_block, pc, result>>
    /\ UNCHANGED <<inlineVars, mainVars>>

OrderedStep ==
    /\ NotCode
    /\ ~IsHeadingLine(Line)
    /\ ~HasBulletPrefix(Line)
    /\ IsOrderedLine(Line)
    /\ html_lines' = (IF in_list = "False" THEN Append(html_lines, OL_OPEN)
                      ELSE html_lines) \o <<OrderedItem(Line)>>
    /\ in_list' = (IF in_list = "False" THEN "ol" ELSE in_list)
    /\ i' = i + 1
    /\ UNCHANGED <<lines, in_code_block, pc, result>>
    /\ UNCHANGED <<inlineVars, mainVars>>

\* the line is no fence, code, heading or list item
FallsThrough ==
    /\ NotCode
    /\ ~IsHeadingLine(Line)
    /\ ~HasBulletPrefix(Line)
    /\ ~IsOrderedLine(Line)

\* the buffer after the "Close list" statement
AfterClose ==
    IF ClosesList(Line, in_list) THEN Append(html_lines, CloseTag(in_list))
    ELSE html_lines

\* BlankStep emitting nothing for the blank line itself
BlankStepSilent ==
    /\ FallsThrough
    /\ Strip(Line) = <<>>
    /\ html_lines' = AfterClose
    /\ in_list' = (IF ClosesList(Line, in_list) THEN "False" ELSE in_list)
    /\ i' = i + 1
    /\ UNCHANGED <<lines, in_code_block, pc, result>>
    /\ UNCHANGED <<inlineVars, mainVars>>

BlankStep ==
    /\ FallsThrough
    /\ Strip(Line) = <<>>
    /\ html_lines' = Append(AfterClose, BR)
    /\ in_list' = (IF ClosesList(Line, in_list) THEN "False" ELSE in_list)
    /\ i' = i + 1
    /\ UNCHANGED <<lines, in_code_block, pc, result>>
    /\ UNCHANGED <<inlineVars, mainVars>>

ParagraphStep ==
    /\ FallsThrough
    /\ Strip(Line) # <<>>
    /\ html_lines' = Append(AfterClose, Paragraph(Line))
    /\ in_list' = (IF ClosesList(Line, in_list) THEN "False" ELSE in_list)
    /\ i' = i + 1
    /\ UNCHANGED <<lines, in_code_block, pc, result>>
    /\ UNCHANGED <<inlineVars, mainVars>>

\* Return closing an open code block as it closes an open list
ReturnClosingCode ==
    /\ pc = "walk"
    /\ i >= Len(lines)
    /\ html_lines' = (IF in_list # "False" THEN Append(html_lines, CloseTag(in_list))
                      ELSE html_lines)
                     \o (IF in_code_block THEN <<PRE_CLOSE>> ELSE <<>>)
    /\ result' = Join(html_lines')
    /\ pc' = "done"
    /\ UNCHANGED <<lines, i, in_code_block, in_list>>
    /\ UNCHANGED <<inlineVars, mainVars>>

\* after the loop: "Close any open lists", then the join
Return ==
    /\ pc = "walk"
    /\ i >= Len(lines)
    /\ html_lines' = (IF in_list # "False" THEN Append(html_lines, CloseTag(in_list))
                      ELSE html_lines)
    /\ result' = Join(html_lines')
    /\ pc' = "done"
    /\ UNCHANGED <<lines, i, in_code_block, in_list>>
    /\ UNCHANGED <<inlineVars, mainVars>>

---------------------------------------------------------------------------
(* The documents the scanner is run on.                                    *)

MaxLines == 3

Lines ==
    { <<>>,
      <<" ">>,
      Fence,
      <<" ">> \o Fence \o <<"p", "y", " ">>,
      <<"<", "b", ">">>,
      <<"#", " ", "T">>,
      <<"#", "#", "#", "#", "#", "#", " ", "*", "T", "*">>,
      <<"#", "#", "#", "#", "#", "#", "#", " ", "O", "v", "e", "r">>,
      <<"#", "T">>,
      <<"-", " ", "a">>,
      <<" ", "*", " ", "_", "a", "_", " ">>,
      <<"-", "a">>,
      <<"1", ".", " ", "a">>,
      <<" ", "1", "2", ".", " ", " ", "<", "a", ">">>,
      <<"1", "0", "0", ".", " ", "x">>,
      <<"2", "0", "2", "4", " ", "p", "l", "a", "n">>,
      <<"1", " ", ".", " ", "x">>,
      <<"\t", "+", " ", "x">>,
      <<"3", ".", "a">>,
      <<"a", " ", "*", "b", "*">> }

\* md_content.split('\n') is never empty
Documents == UNION {[1..n -> Lines] : n \in 1..MaxLines}

InlineIdle == text = <<>> /\ text0 = <<>> /\ pass = NumPasses

MainIdle ==
    /\ files = <<>>
    /\ f = 0
    /\ returned = <<>>
    /\ success_count = 0
    /\ mpc = "idle"
    /\ exit_code = -1

Init ==
    /\ lines \in Documents
    /\ i = 0
    /\ in_code_block = FALSE
    /\ in_list = "False"
    /\ html_lines = <<>>
    /\ pc = "walk"
    /\ result = <<>>
    /\ InlineIdle
    /\ MainIdle

Next ==
    \/ FenceStep
    \/ CodeStep
    \/ HeadingStep
    \/ UnorderedStep
    \/ OrderedStep
    \/ BlankStep
    \/ ParagraphStep
    \/ Return

Spec == Init /\ [][Next]_vars

---------------------------------------------------------------------------
(* apply_inline_formatting run pass by pass on one text.                   *)

ScanIdle ==
    /\ lines = <<>>
    /\ i = 0
    /\ in_code_block = FALSE
    /\ in_list = "False"
    /\ html_lines = <<>>
    /\ pc = "idle"
    /\ result = <<>>

RECURSIVE SeqsUpTo(_, _)
SeqsUpTo(S, n) ==
    IF n = 0 THEN {<<>>}
    ELSE LET R == SeqsUpTo(S, n - 1) IN R \cup {Append(s, c) : s \in R, c \in S}

MaxTextLen == 3
MaxAltLen  == 1
MaxUrlLen  == 3

TextChars == {"a", "<", ">", "!", "[", "]", "(", ")", "*", "_", Backtick}
SpanChars == {"a", "_", "[", "]", "(", ")"}

\* the text ![alt](url)
ImageSpan(alt, url) == <<"!", "[">> \o alt \o <<"]", "(">> \o url \o <<")">>

\* alt holds no "]"; url is not empty and holds no ")"
AltTexts == SeqsUpTo(SpanChars \ {"]"}, MaxAltLen)
UrlTexts == SeqsUpTo(SpanChars \ {")"}, MaxUrlLen) \ {<<>>}

InlineInputs ==
    SeqsUpTo(TextChars, MaxTextLen)
    \cup {ImageSpan(alt, url) : alt \in AltTexts, url \in UrlTexts}

InitInline ==
    /\ text0 \in InlineInputs
    /\ text = text0
    /\ pass = 0
    /\ ScanIdle
    /\ MainIdle

\* what every pass leaves alone, and the count of passes done
PassDone ==
    /\ pass' = pass + 1
    /\ UNCHANGED <<text0, scanVars, mainVars>>

\* SubImages on the HTML-escaped text
SubImagesEscaping ==
    /\ pass = 0
    /\ text' = ReSub(1, EscapeCode(text))
    /\ PassDone

\* the seven re.sub statements of apply_inline_formatting, in order
SubImages ==
    /\ pass = 0
    /\ text' = ReSub(1, text)
    /\ PassDone

SubLinks ==
    /\ pass = 1
    /\ text' = ReSub(2, text)
    /\ PassDone

SubBoldStar ==
    /\ pass = 2
    /\ text' = ReSub(3, text)
    /\ PassDone

SubBoldUnder ==
    /\ pass = 3
    /\ text' = ReSub(4, text)
    /\ PassDone

SubItalicStar ==
    /\ pass = 4
    /\ text' = ReSub(5, text)
    /\ PassDone

SubItalicUnder ==
    /\ pass = 5
    /\ text' = ReSub(6, text)
    /\ PassDone

SubCode ==
    /\ pass = 6
    /\ text' = ReSub(7, text)
    /\ PassDone

NextInline ==
    \/ SubImages
    \/ SubLinks
    \/ SubBoldStar
    \/ SubBoldUnder
    \/ SubItalicStar
    \/ SubItalicUnder
    \/ SubCode

SpecInline == InitInline /\ [][NextInline]_vars

---------------------------------------------------------------------------
(* main: the loop over the discovered files.  A file is what the system    *)
(* does with it: "ok", "missing" (md_path.exists() is false), or the       *)
(* statement of process_markdown_file that raises an Exception.            *)

MaxFiles == 3

Fates == {"ok", "missing", "read_raises", "convert_raises", "write_raises"}

FileLists == SeqsUpTo(Fates, MaxFiles)

InitMain ==
    /\ files \in FileLists
    /\ f = 0
    /\ returned = <<>>
    /\ success_count = 0
    /\ mpc = "scan"
    /\ exit_code = -1
    /\ ScanIdle
    /\ InlineIdle

\* if not files_to_process: print(...); sys.exit(0)
NoFiles ==
    /\ mpc = "scan"
    /\ files = <<>>
    /\ mpc' = "exit"
    /\ exit_code' = 0
    /\ UNCHANGED <<files, f, returned, success_count>>
    /\ UNCHANGED <<scanVars, inlineVars>>

FoundFiles ==
    /\ mpc = "scan"
    /\ files # <<>>
    /\ mpc' = "loop"
    /\ UNCHANGED <<files, f, returned, success_count, exit_code>>
    /\ UNCHANGED <<scanVars, inlineVars>>

\* one turn of "for file_path in files_to_process" whose call returns r
Processed(r) ==
    /\ returned' = Append(returned, r)
    /\ success_count' = (IF r THEN success_count + 1 ELSE success_count)
    /\ f' = f + 1
    /\ UNCHANGED <<files, mpc, exit_code>>
    /\ UNCHANGED <<scanVars, inlineVars>>

InFileLoop == mpc = "loop" /\ f < Len(files)

\* if not md_path.exists(): ...; return False
ProcessMissing ==
    /\ InFileLoop
    /\ files[f + 1] = "missing"
    /\ Processed(FALSE)

\* ProcessRaises without the try: the exception ends the run
ProcessRaisesUncaught ==
    /\ InFileLoop
    /\ files[f + 1] \in {"read_raises", "convert_raises", "write_raises"}
    /\ mpc' = "exit"
    /\ exit_code' = 1
    /\ UNCHANGED <<files, f, returned, success_count>>
    /\ UNCHANGED <<scanVars, inlineVars>>

\* except Exception as e: ...; return False
ProcessRaises ==
    /\ InFileLoop
    /\ files[f + 1] \in {"read_raises", "convert_raises", "write_raises"}
    /\ Processed(FALSE)

\* read, convert, write; return True
ProcessOk ==
    /\ InFileLoop
    /\ files[f + 1] = "ok"
    /\ Processed(TRUE)

\* the loop is over: print the count; main returns and the process exits 0
Report ==
    /\ mpc = "loop"
    /\ f >= Len(files)
    /\ mpc' = "exit"
    /\ exit_code' = 0
    /\ UNCHANGED <<files, f, returned, success_count>>
    /\ UNCHANGED <<scanVars, inlineVars>>

NextMain ==
    \/ NoFiles
    \/ FoundFiles
    \/ ProcessMissing
    \/ ProcessRaises
    \/ ProcessOk
    \/ Report

SpecMain == InitMain /\ [][NextMain]_vars

---------------------------------------------------------------------------
(* What the claims speak of.                                               *)

\* the step takes one line of the document
LineStep == pc = "walk" /\ i < Len(lines) /\ i' = i + 1

\* the step is the end of the walk
EndStep == pc = "walk" /\ pc' = "done"

\* the fragments the step appends (the buffer before it is a prefix)
Emitted == Drop(html_lines', Len(html_lines))

\* the fragment the step emits for the line itself: the last one appended
OwnFragment == html_lines'[Len(html_lines')]

ListOpenTags  == {UL_OPEN, OL_OPEN}
ListCloseTags == {UL_CLOSE, OL_CLOSE}
IsListTag(frag) == frag \in ListOpenTags \cup ListCloseTags

Count(frags, P(_)) == Cardinality({k \in 1..Len(frags) : P(frags[k])})

IsListOpen(frag)  == frag \in ListOpenTags
IsListClose(frag) == frag \in ListCloseTags

\* frags without its last n elements
DropLast(frags, n) == Slice(frags, 1, Len(frags) - n)

\* text.split('\n')
RECURSIVE SplitLines(_)
SplitLines(t) ==
    LET p == Find(t, <<"\n">>, 1)
    IN  IF p = 0 THEN <<t>> ELSE <<Slice(t, 1, p - 1)>> \o SplitLines(Drop(t, p))

---------------------------------------------------------------------------
\* C1: every line reached inside a list and outside a code block that is no
\* fence, heading, unordered item or ordered item makes the scanner emit the
\* open list's closing tag and clear the list state before the line's own
\* fragment, so no <p> or <br> is emitted while a list is open.
C1_ListClosedBeforeOwnFragment ==
    [][ ( /\ LineStep
          /\ in_list # "False"
          /\ ~in_code_block
          /\ ~IsFenceLine(Line)
          /\ ~IsHeadingLine(Line)
          /\ ~HasBulletPrefix(Line)
          /\ ~IsOrderedLine(Line) )
        => /\ Len(Emitted) = 2
           /\ Emitted[1] = (IF in_list = "ol" THEN OL_CLOSE ELSE UL_CLOSE)
           /\ in_list' = "False" ]_vars

---------------------------------------------------------------------------
\* the list tags alternate open, close, ..., starting with an open tag, each
\* close of the kind of the open before it
Alternates(tags) ==
    \A k \in 1..Len(tags) :
        IF k % 2 = 1 THEN tags[k] \in ListOpenTags
        ELSE \/ tags[k - 1] = UL_OPEN /\ tags[k] = UL_CLOSE
             \/ tags[k - 1] = OL_OPEN /\ tags[k] = OL_CLOSE

ListTagsOf(frags) == SelectSeq(frags, IsListTag)

\* C2: the list tags of the output alternate open, close, ... starting with an
\* open tag, each close of the kind of the open before it; an open tag is
\* emitted only when a list item arrives while no list is open; a list still
\* open at the end of the walk gets its closing tag, so the final output has
\* as many list open tags as list close tags.
C2_ListTagsBalanced ==
    /\ [] ( /\ Alternates(ListTagsOf(html_lines))
            /\ (pc = "done" =>
                  /\ SplitLines(result) = html_lines
                  /\ Count(SplitLines(result), IsListOpen)
                       = Count(SplitLines(result), IsListClose)) )
    /\ [][ /\ (Count(html_lines', IsListOpen) > Count(html_lines, IsListOpen)
                 => /\ LineStep
                    /\ in_list = "False"
                    /\ ~in_code_block
                    /\ (HasBulletPrefix(Line) \/ IsOrderedLine(Line)))
           /\ (EndStep /\ in_list = "True" => html_lines' = Append(html_lines, UL_CLOSE))
           /\ (EndStep /\ in_list = "ol" => html_lines' = Append(html_lines, OL_CLOSE))
         ]_vars

\* a finished walk with a <ul>...</ul> closed by a paragraph and an <ol> that
\* the end of input closed
C2_Witness ==
    /\ pc = "done"
    /\ ListTagsOf(html_lines) = <<UL_OPEN, UL_CLOSE, OL_OPEN, OL_CLOSE>>
    /\ html_lines[Len(html_lines)] = OL_CLOSE

---------------------------------------------------------------------------
\* the number of fence lines among the first n lines
FenceCount(n) == Cardinality({k \in 1..n : IsFenceLine(lines[k])})

IsPreOpen(frag) ==
    StartsWith(frag, <<"<", "p", "r", "e", ">", "<", "c", "o", "d", "e", " ",
                       "c", "l", "a", "s", "s", "=", "\"">>)
IsPreClose(frag) == frag = PRE_CLOSE

\* C3: every line whose stripped text starts with three backticks toggles
\* in_code_block and emits exactly one fragment, whatever the list and code
\* state: the k-th fence line emits <pre><code class="LANG"> for odd k and
\* </code></pre> for even k, never code content; the end of input adds no
\* closing fragment, so an odd number of fence lines leaves one more
\* <pre><code ...> than </code></pre> in the output.
C3_FenceToggles ==
    /\ [][ /\ (LineStep /\ IsFenceLine(Line)
                 => /\ in_code_block' = ~in_code_block
                    /\ in_code_block = (FenceCount(i) % 2 = 1)
                    /\ Emitted = << IF FenceCount(i + 1) % 2 = 1
                                    THEN PreOpen(Line) ELSE PRE_CLOSE >>)
           /\ (EndStep => Count(Emitted, IsPreClose) = 0)
         ]_vars
    /\ [] (pc = "done" =>
             Count(SplitLines(result), IsPreOpen)
               = Count(SplitLines(result), IsPreClose) + (FenceCount(Len(lines)) % 2))

\* a finished walk over three fence lines, the code block left open
C3_Witness ==
    /\ pc = "done"
    /\ FenceCount(Len(lines)) = 3
    /\ in_code_block
    /\ Count(html_lines, IsPreOpen) = 2
    /\ Count(html_lines, IsPreClose) = 1

---------------------------------------------------------------------------
\* the line with every '<' and '>' replaced by its entity, nothing else changed
RECURSIVE AngleEscaped(_)
AngleEscaped(s) ==
    IF s = <<>> THEN <<>>
    ELSE (CASE Head(s) = "<" -> <<"&", "l", "t", ";">>
            [] Head(s) = ">" -> <<"&", "g", "t", ";">>
            [] OTHER -> <<Head(s)>>) \o AngleEscaped(Tail(s))

\* C4: inside a code block every non-fence line emits exactly one fragment,
\* the line with '<' and '>' replaced by &lt; and &gt; and nothing else
\* changed (no heading, list, blank-line, paragraph or inline rule, no list
\* tag), and leaves in_code_block and the list state as they were; no code
\* content fragment holds a '<' or a '>'.
C4_CodeContentVerbatim ==
    [][ (LineStep /\ in_code_block /\ ~IsFenceLine(Line))
        => /\ Emitted = <<AngleEscaped(Line)>>
           /\ ~Contains(OwnFragment, <<"<">>)
           /\ ~Contains(OwnFragment, <<">">>)
           /\ in_code_block'
           /\ in_list' = in_list ]_vars

\* inside a code block opened inside a list, the line <b> went out escaped
C4_Witness ==
    /\ in_code_block
    /\ in_list = "True"
    /\ i = 3
    /\ lines[3] = <<"<", "b", ">">>
    /\ html_lines[Len(html_lines)] = <<"&", "l", "t", ";", "b", "&", "g", "t", ";">>

---------------------------------------------------------------------------
\* the line begins with exactly n '#' and a space follows them
HashesThenSpace(line, n) ==
    /\ Len(line) > n
    /\ \A k \in 1..n : line[k] = "#"
    /\ line[n + 1] = " "

\* the fragment is <hD>...</hD> for the digit D
IsHeadingOf(frag, D) ==
    /\ StartsWith(frag, <<"<", "h", D, ">">>)
    /\ At(frag, Len(frag) - 4, <<"<", "/", "h", D, ">">>)

\* the fragment opens with <h and a digit
LooksLikeHeading(frag) ==
    Len(frag) >= 3 /\ frag[1] = "<" /\ frag[2] = "h" /\ IsDigit(frag[3])

SevenHashesOver == <<"#", "#", "#", "#", "#", "#", "#", " ", "O", "v", "e", "r">>

\* C5: outside a code block a line gets a heading fragment <hN>...</hN> if and
\* only if it begins with a run of exactly N '#', 1 <= N <= 6, followed by a
\* space, and N is the run's length, so every heading tag is one of h1..h6; a
\* run of 7 or more, or one no space follows, falls through to the later
\* rules ("####### Over" yields <p>####### Over</p>).
C5_HeadingIffHashRun ==
    [][ (LineStep /\ ~in_code_block)
        => /\ LooksLikeHeading(OwnFragment)
                <=> \E n \in 1..6 : HashesThenSpace(Line, n)
           /\ \A n \in 1..6 :
                HashesThenSpace(Line, n)
                  => /\ Emitted = <<OwnFragment>>
                     /\ IsHeadingOf(OwnFragment,
                                    <<"1", "2", "3", "4", "5", "6">>[n])
           /\ (StartsWith(Line, <<"#">>) /\ ~\E n \in 1..6 : HashesThenSpace(Line, n))
                => OwnFragment = <<"<", "p", ">">> \o apply_inline_formatting(Line)
                                 \o <<"<", "/", "p", ">">>
           /\ Line = SevenHashesOver
                => OwnFragment = <<"<", "p", ">">> \o SevenHashesOver
                                 \o <<"<", "/", "p", ">">> ]_vars

\* the buffer holds an <h6> heading and the paragraph of "####### Over"
C5_Witness ==
    /\ \E k \in 1..Len(html_lines) : IsHeadingOf(html_lines[k], "6")
    /\ \E k \in 1..Len(html_lines) :
         html_lines[k] = <<"<", "p", ">">> \o SevenHashesOver \o <<"<", "/", "p", ">">>

---------------------------------------------------------------------------
\* the two characters ". " occur in t at p, inside the first 4 characters
DotSpaceAt(t, p) == p + 1 <= 4 /\ p + 1 <= Len(t) /\ t[p] = "." /\ t[p + 1] = " "

\* the fragment is '  <li>' content '</li>'
IsListItemOf(frag, content) ==
    frag = <<" ", " ", "<", "l", "i", ">">> \o content \o <<"<", "/", "l", "i", ">">>

LooksLikeListItem(frag) == StartsWith(frag, <<" ", " ", "<", "l", "i", ">">>)

---------------------------------------------------------------------------
\* <img src="url" alt="alt">
ImgTag(alt, url) ==
    <<"<", "i", "m", "g", " ", "s", "r", "c", "=", "\"">> \o url
    \o <<"\"", " ", "a", "l", "t", "=", "\"">> \o alt \o <<"\"", ">">>

\* C7: for every alt without ']' and every non-empty url without ')',
\* apply_inline_formatting of ![alt](url) returns exactly
\* <img src="url" alt="alt">, url and alt character for character, and the
\* link rule never turns the span into an <a> link.
C7_ImageSpanRendered ==
    \A alt \in AltTexts, url \in UrlTexts :
        (text0 = ImageSpan(alt, url) /\ pass >= 1) => text = ImgTag(alt, url)

---------------------------------------------------------------------------
MarkdownChars == {"[", "*", "_", Backtick}

IsPlain(t) == t # <<>> /\ \A k \in 1..Len(t) : t[k] \notin MarkdownChars

\* C8: apply_inline_formatting returns every non-empty line that holds none of
\* '[', '*', '_' and the backtick unchanged, raw '<' and '>' included.
C8_PlainTextUnchanged == IsPlain(text0) => text = text0

\* all seven passes ran on the plain text "<a>" and it is as it was
C8_Witness ==
    /\ pass = NumPasses
    /\ text0 = <<"<", "a", ">">>
    /\ text = text0

---------------------------------------------------------------------------
\* C9: main passes every discovered file to process_markdown_file exactly once,
\* in order; a missing file, or one that raises during read, convert or write,
\* returns False without stopping the run; success_count is the number of
\* files that returned True, between 0 and the total; the run ends with exit
\* code 0 whatever the number of failures.
C9_EveryFileProcessed ==
    /\ [] ( /\ f \in 0..Len(files)
            /\ returned = [k \in 1..f |-> files[k] = "ok"]
            /\ success_count = Cardinality({k \in 1..f : returned[k]})
            /\ success_count \in 0..Len(files)
            /\ (mpc = "exit" => exit_code = 0 /\ f = Len(files))
            /\ (mpc = "exit" \/ ENABLED NextMain) )
    /\ [][ (mpc = "loop" /\ f < Len(files))
             => f' = f + 1 /\ mpc' = "loop" /\ Len(returned') = f' ]_vars

\* the run ended after a file that raised, a missing file and a good one
C9_Witness ==
    /\ mpc = "exit"
    /\ files = <<"read_raises", "missing", "ok">>
    /\ returned = <<FALSE, FALSE, TRUE>>
    /\ success_count = 1

---------------------------------------------------------------------------
\* C10: the output buffer is append-only and each line is consumed once, in
\* order: a line's step leaves the old buffer a prefix of the new one and
\* appends one fragment for the line plus at most one list open or close tag
\* (1 or 2 fragments); the end of input appends at most one fragment; so the
\* final number of fragments is the number of lines plus the number of list
\* open tags plus the number of list close tags.
C10_AppendOnly ==
    /\ [][ /\ Len(html_lines') >= Len(html_lines)
           /\ SubSeq(html_lines', 1, Len(html_lines)) = html_lines
           /\ lines' = lines
           /\ i' \in {i, i + 1}
           /\ (i' = i + 1
                 => /\ Len(Emitted) \in {1, 2}
                    /\ ~IsListTag(OwnFragment)
                    /\ Len(Emitted) = 2 => IsListTag(Emitted[1]))
           /\ (i' = i => EndStep /\ i = Len(lines) /\ Len(Emitted) <= 1)
         ]_vars
    /\ [] ( /\ Len(html_lines) = i + Count(html_lines, IsListTag)
            /\ (pc = "done"
                  => Len(SplitLines(result))
                       = Len(lines) + Count(SplitLines(result), IsListOpen)
                                    + Count(SplitLines(result), IsListClose)) )

\* a finished walk of three lines that opened and closed two lists
C10_Witness ==
    /\ pc = "done"
    /\ Len(lines) = 3
    /\ Len(html_lines) = 7
    /\ Count(html_lines, IsListTag) = 4

---------------------------------------------------------------------------
\* the line is a heading line: 1..6 '#' and then a space
IsHashHeading(line) == \E n \in 1..6 : HashesThenSpace(line, n)

=============================================================================
